---- MODULE Spec2Model ----
(***************************************************************************)
(* Model of frontend/streamlit_app.py: the chat input handler and          *)
(* run_agent, one agent turn over an MCP session.  run_agent is a          *)
(* coroutine; it is cut into one action per stretch of code between two    *)
(* awaits (and per iteration of its tool loop), sequenced by pc.           *)
(***************************************************************************)
EXTENDS Integers, Sequences, FiniteSets, TLC

\* ------------------------------------------------------------------ bounds
\* Chat inputs submitted in one behaviour.
MaxTurns == 1
\* Longest tool_calls list of a model response.
MaxCalls == 2

\* ------------------------------------------------------------ input domains
None == "None"
SYSTEM_PROMPT == "SYSTEM_PROMPT"

Prompts == {"plan a trip"}
\* Ids the completions API gives the requests of one response.
CallIdOf(k) == CASE k = 1 -> "call_c" [] k = 2 -> "call_a" [] k = 3 -> "call_d" [] OTHER -> "call_b"
\* Texts of str(e) for a failure raised at an await.
Failures == {"connection failed"}
\* Text of the IndexError raised by content[0] on an empty list.
IndexErrorText == "list index out of range"

\* JSON-Schema-like trees, as far as create_pydantic_model_from_schema reads
\* them.  A value a dict lookup does not find is Missing.
Missing == "<missing>"
\* A property's description: a dict with or without a "type", or the
\* boolean schema `true`, which is no dict.
FieldInfo(kind, type) == [kind |-> kind, type |-> type]
DeclaredTypes == {"number", "integer", "boolean", "string", "array", Missing}
FieldInfos ==
  { FieldInfo("dict", t) : t \in DeclaredTypes } \cup { FieldInfo("bool", Missing) }
FieldNames == {"city", "radius"}
\* The "properties" maps: any set of the field names, each with a description.
PropertyMaps == UNION { [fs -> FieldInfos] : fs \in SUBSET FieldNames }
\* A schema: a dict with or without a "properties" key, or None.
Schema(kind, has_properties, properties) ==
  [kind |-> kind, has_properties |-> has_properties, properties |-> properties]
NoneSchema == Schema("none", FALSE, <<>>)
Schemas ==
  { NoneSchema, Schema("dict", FALSE, <<>>) }
    \cup { Schema("dict", TRUE, p) : p \in PropertyMaps }
CitySchema == Schema("dict", TRUE, [city |-> FieldInfo("dict", "string")])
PlacesSchema ==
  Schema("dict", TRUE, [city |-> FieldInfo("dict", "string"),
                        radius |-> FieldInfo("dict", "integer")])
BoolPropertySchema ==
  Schema("dict", TRUE, [city |-> FieldInfo("dict", "string"),
                        radius |-> FieldInfo("bool", Missing)])

\* What session.list_tools() may return: tool descriptors in provider order.
\* Two descriptors of one name differ in their description.
Descriptor(n, d, schema) == [name |-> n, description |-> d, inputSchema |-> schema]
ToolLists ==
  { <<>>,
    <<Descriptor("search_flights", "d1", CitySchema)>>,
    <<Descriptor("search_flights", "d1", CitySchema),
      Descriptor("search_places", "d2", PlacesSchema)>>,
    <<Descriptor("search_flights", "d1", CitySchema),
      Descriptor("search_flights", "d2", Schema("dict", FALSE, <<>>))>>,
    <<Descriptor("search_places", "d1", PlacesSchema),
      Descriptor("search_flights", "d2", CitySchema),
      Descriptor("search_flights", "d3", Schema("dict", TRUE, <<>>))>>,
    <<Descriptor("search_flights", "d1", CitySchema),
      Descriptor("search_places", "d2", BoolPropertySchema)>> }

ToolCallRequest(id, n, a) == [id |-> id, name |-> n, args |-> a]
\* What a request may name and carry: a plain argument map for either tool,
\* or one with a key tool_name.
RequestKinds ==
  { <<"search_flights", [city |-> "Paris"]>>,
    <<"search_places", [city |-> "Paris"]>>,
    <<"search_flights", [city |-> "Paris", tool_name |-> "search_places"]>> }

\* tool_calls lists of a response: at most MaxCalls requests, the k-th with
\* the k-th id of the response (ids are unique within a response).
ToolCallLists ==
  UNION { { [k \in 1..n |-> ToolCallRequest(CallIdOf(k), ks[k][1], ks[k][2])] :
              ks \in [1..n -> RequestKinds] } : n \in 0..MaxCalls }

\* Contents of a synthesis response; the planning response's content is "".
Contents == {"", "itinerary"}

\* Tool payloads: CallToolResult.content as a list of segment texts.
ToolTexts == {"[]", "{}", "flights", "API Error"}
ToolResults == { <<>> } \cup { <<t>> : t \in ToolTexts } \cup { <<"flights", "[]">> }

\* ---------------------------------------------------------------- messages
Msg(role, content, tool_calls, tool_call_id, name) ==
  [role |-> role, content |-> content, tool_calls |-> tool_calls,
   tool_call_id |-> tool_call_id, name |-> name]
SystemMessage(c) == Msg("system", c, <<>>, None, None)
HumanMessage(c) == Msg("user", c, <<>>, None, None)
AIMessage(c, tcs) == Msg("assistant", c, tcs, None, None)
ToolMessage(id, c, n) == Msg("tool", c, <<>>, id, n)

\* Responses of the planning completion and of the synthesis completion; a
\* synthesis response may again carry a tool call.
PlanResponses == { AIMessage("", tcs) : tcs \in ToolCallLists }
FinalResponses ==
  { AIMessage(c, <<>>) : c \in Contents }
    \cup { AIMessage("itinerary", << ToolCallRequest("call_z", "search_flights", [city |-> "Rome"]) >>) }

\* Entries of st.session_state.messages.
Entry(role, content) == [role |-> role, content |-> content]

\* The status placeholder: info(...), error(...), empty().
Info(text, n) == [kind |-> "info", text |-> text, n |-> n]
Error(e) == [kind |-> "error", text |-> e, n |-> 0]
Cleared == [kind |-> "empty", text |-> "", n |-> 0]

\* final_response before line 188 has returned; raised while nothing was.
NoResponse == Msg("none", None, <<>>, None, None)
NoFailure == [at |-> "none", text |-> ""]
Failure(at, e) == [at |-> at, text |-> e]
\* tool_result of line 172: before any invocation has returned, and after.
NotReturned == [returned |-> FALSE, content |-> <<>>]
Returned(content) == [returned |-> TRUE, content |-> content]

VARIABLES
  pc,               \* where the handler / run_agent stands
  turn,             \* chat inputs handled so far
  session_messages, \* st.session_state.messages
  status_text,      \* what the status placeholder shows
  stack,            \* AsyncExitStack: contexts entered and not yet exited
  langchain_tools,  \* the registry built from discovery
  messages,         \* the turn's message list
  idx,              \* position of the for loop over ai_msg.tool_calls
  selected_tool,    \* index into langchain_tools of the resolved handle, 0 for None
  final_response,   \* the synthesis response, None before it arrives
  response,         \* run_agent's return value
  outcome,          \* RUNNING, DONE, ABORTED, CANCELLED
  acquired,         \* log: contexts entered this turn, in order
  released,         \* log: contexts exited this turn, in order
  remote_calls,     \* log: session.call_tool calls issued this turn
  completions,      \* log: message lists submitted to ainvoke this turn
  warnings,         \* log: tool names flagged by st.warning this turn
  raised,           \* log: the Exception raised this turn and the await it came from
  history_at_input, \* log: the chat history when this turn's input arrived
  tool_result,      \* what the last tool invocation of this turn returned
  adapter           \* a call of create_pydantic_model_from_schema on its own:
                    \* its schema argument and the model it returned

vars == <<pc, turn, session_messages, status_text, stack, langchain_tools, messages,
          idx, selected_tool, final_response, response, outcome, acquired, released,
          remote_calls, completions, warnings, raised, history_at_input, tool_result,
          adapter>>

\* ----------------------------------------------------------------- helpers
\* Python truthiness of run_agent's return value (None or a str).
Truthy(r) == r # None /\ r # ""

\* Mutant of Push: the entered context goes to the bottom of the stack.
PushBottom(st, r) == <<r>> \o st
\* AsyncExitStack.enter_async_context: the entered context goes on top.
Push(st, r) == Append(st, r)
\* AsyncExitStack.__aexit__: contexts are exited last-entered first.
Top(st) == st[Len(st)]
\* Mutant of Pop: after one exit the stack forgets the contexts left on it.
PopAll(st) == <<>>
Pop(st) == SubSeq(st, 1, Len(st) - 1)

\* What a call of the adapter comes to: the model's fields, or the exception.
Model(name, fields) == [called |-> TRUE, name |-> name, raises |-> "", fields |-> fields]
Raises(name, e) == [called |-> TRUE, name |-> name, raises |-> e, fields |-> <<>>]
NotCalled == [called |-> FALSE, name |-> "", raises |-> "", fields |-> <<>>]

\* Mutant of FieldType: "integer" falls into the branch of "number".
FieldTypeFloat(field_info) ==
  IF field_info.type \in {"number", "integer"} THEN "float"
  ELSE IF field_info.type = "boolean" THEN "bool"
  ELSE "str"
\* Lines 44-47: field_type, str unless the "type" is one of three.
FieldType(field_info) ==
  IF field_info.type = "number" THEN "float"
  ELSE IF field_info.type = "integer" THEN "int"
  ELSE IF field_info.type = "boolean" THEN "bool"
  ELSE "str"

\* Lines 40-50.  `"properties" in schema` raises TypeError on None, and
\* field_info.get raises AttributeError on a description that is no dict.
create_pydantic_model_from_schema(name, schema) ==
  IF schema.kind # "dict" THEN Raises(name, "TypeError")
  ELSE IF ~schema.has_properties THEN Model(name, <<>>)
  ELSE IF \E f \in DOMAIN schema.properties : schema.properties[f].kind # "dict"
       THEN Raises(name, "AttributeError")
  ELSE Model(name, [f \in DOMAIN schema.properties |-> FieldType(schema.properties[f])])

\* One registry entry per descriptor, in discovery order; tool_name is the
\* default the closure call_mcp_tool binds at definition time.
lc_tool(tool) ==
  [name |-> tool.name, description |-> tool.description, tool_name |-> tool.name,
   args_schema |-> create_pydantic_model_from_schema(tool.name, tool.inputSchema).fields]
BuildTools(tools) == [k \in 1..Len(tools) |-> lc_tool(tools[k])]

\* The descriptors whose schema the adapter raises on, and the first of them.
Malformed(tools) ==
  { k \in 1..Len(tools) :
      create_pydantic_model_from_schema(tools[k].name, tools[k].inputSchema).raises # "" }
FirstMalformed(tools) == CHOOSE k \in Malformed(tools) : \A j \in Malformed(tools) : k <= j
\* str(e) of the exception the adapter raises on the first of them.
AdapterError(tools) ==
  create_pydantic_model_from_schema(tools[FirstMalformed(tools)].name,
                                    tools[FirstMalformed(tools)].inputSchema).raises

\* Mutant of SelectedTool: a registry keyed by name, a later entry replacing
\* an earlier one of the same name.
SelectedToolLast(tools, name) ==
  IF \E k \in 1..Len(tools) : tools[k].name = name
  THEN CHOOSE k \in 1..Len(tools) :
         /\ tools[k].name = name
         /\ \A j \in (k + 1)..Len(tools) : tools[j].name # name
  ELSE 0

\* next((t for t in langchain_tools if t.name == name), None), as an index
\* into the registry, 0 for None.
SelectedTool(tools, name) ==
  IF \E k \in 1..Len(tools) : tools[k].name = name
  THEN CHOOSE k \in 1..Len(tools) :
         /\ tools[k].name = name
         /\ \A j \in 1..(k - 1) : tools[j].name # name
  ELSE 0

\* call_mcp_tool(tool_name=<default>, **kwargs) called as coroutine(**args):
\* a key tool_name of args binds the parameter, the rest is kwargs.
Without(f, k) == [x \in DOMAIN f \ {k} |-> f[x]]
call_mcp_tool(default, args) ==
  IF "tool_name" \in DOMAIN args
  THEN [name |-> args["tool_name"], arguments |-> Without(args, "tool_name")]
  ELSE [name |-> default, arguments |-> args]

\* The entry of remote_calls for request tc run through registry entry k.
RemoteCall(tc, k, tools) ==
  [id |-> tc.id, handle |-> k, call |-> call_mcp_tool(tools[k].tool_name, tc.args)]

\* content_text == "[]" or content_text == "{}" or "error" in content_text.lower()
Chars(t) ==
  CASE t = "[]" -> <<"[", "]">>
    [] t = "{}" -> <<"{", "}">>
    [] t = "flights" -> <<"f", "l", "i", "g", "h", "t", "s">>
    [] t = "error" -> <<"e", "r", "r", "o", "r">>
    [] t = "API Error" -> <<"A", "P", "I", " ", "E", "r", "r", "o", "r">>
    [] OTHER -> <<>>
LowerChar(c) ==
  CASE c = "E" -> "e" [] c = "R" -> "r" [] c = "O" -> "o"
    [] c = "A" -> "a" [] c = "P" -> "p" [] c = "I" -> "i" [] OTHER -> c
Lower(cs) == [k \in 1..Len(cs) |-> LowerChar(cs[k])]
Contains(cs, sub) ==
  \E k \in 0..(Len(cs) - Len(sub)) : SubSeq(cs, k + 1, k + Len(sub)) = sub
\* Mutant of IsEmptyOrError: the text is searched without being lowered.
IsEmptyOrErrorCased(t) ==
  t = "[]" \/ t = "{}" \/ Contains(Chars(t), Chars("error"))
IsEmptyOrError(t) ==
  t = "[]" \/ t = "{}" \/ Contains(Lower(Chars(t)), Chars("error"))

\* The tool_calls of the assistant-plan message, ai_msg.
ToolCalls == IF Len(messages) >= 3 THEN messages[3].tool_calls ELSE <<>>

\* run_agent's argument query: the prompt line 206 appended last.
Query == session_messages[Len(session_messages)].content

\* The awaits of run_agent, all inside its try block.
AwaitPoints == {"sse_client", "ClientSession", "list_tools", "plan", "call_tool", "final"}

\* The state of the turn's state machine that the position in the code stands for.
State ==
  CASE pc \in {"sse_client", "ClientSession"} -> "CONNECTING"
    [] pc = "list_tools" -> "DISCOVERING"
    [] pc = "plan" -> "PLANNING"
    [] pc \in {"loop", "call_tool"} -> "EXECUTING_TOOLS"
    [] pc = "final" -> "SYNTHESIZING"
    [] OTHER -> IF outcome = "RUNNING" THEN "IDLE" ELSE outcome

\* -------------------------------------------------------------------- Init
\* The script's first run: line 198 seeds the chat history.
InitTurn ==
  /\ pc = "idle"
  /\ turn = 0
  /\ session_messages =
       << Entry("system", "I am your AI Travel Agent. Where would you like to go?") >>
  /\ status_text = Cleared
  /\ stack = <<>>
  /\ langchain_tools = <<>>
  /\ messages = <<>>
  /\ idx = 0
  /\ selected_tool = 0
  /\ final_response = NoResponse
  /\ response = None
  /\ outcome = "RUNNING"
  /\ acquired = <<>>
  /\ released = <<>>
  /\ remote_calls = <<>>
  /\ completions = <<>>
  /\ warnings = <<>>
  /\ raised = NoFailure
  /\ history_at_input = <<>>
  /\ tool_result = NotReturned

\* No call of the adapter on its own is under way.
NoAdapterCall == [schema |-> NoneSchema, model |-> NotCalled]
Init == InitTurn /\ adapter = NoAdapterCall

\* ----------------------------------------------------------------- actions
\* Lines 205-211 and 116-122: the user's prompt is appended to the chat
\* history, run_agent starts and waits for the transport to open.
ChatInput(prompt) ==
  /\ pc = "idle"
  /\ turn < MaxTurns
  /\ turn' = turn + 1
  /\ session_messages' = Append(session_messages, Entry("user", prompt))
  /\ status_text' = Info("Connecting to Server...", 0)
  /\ stack' = <<>>
  /\ langchain_tools' = <<>>
  /\ messages' = <<>>
  /\ idx' = 0
  /\ selected_tool' = 0
  /\ final_response' = NoResponse
  /\ response' = None
  /\ outcome' = "RUNNING"
  /\ acquired' = <<>>
  /\ released' = <<>>
  /\ remote_calls' = <<>>
  /\ completions' = <<>>
  /\ warnings' = <<>>
  /\ raised' = NoFailure
  /\ history_at_input' = session_messages
  /\ tool_result' = NotReturned
  /\ UNCHANGED adapter
  /\ pc' = "sse_client"

\* Line 122 returns: the transport is entered on the exit stack; line 123
\* waits for the session to open.
EnterTransport ==
  /\ pc = "sse_client"
  /\ stack' = Push(stack, "transport")
  /\ acquired' = Append(acquired, "transport")
  /\ pc' = "ClientSession"
  /\ UNCHANGED <<adapter, tool_result, raised, history_at_input, final_response, turn, session_messages, status_text, langchain_tools, messages, idx,
                 selected_tool, response, outcome, released, remote_calls, completions,
                 warnings>>

\* Line 123 returns: the session is entered; lines 124-127 wait for discovery.
EnterSession ==
  /\ pc = "ClientSession"
  /\ stack' = Push(stack, "session")
  /\ acquired' = Append(acquired, "session")
  /\ status_text' = Info("Connected! Discovering tools...", 0)
  /\ pc' = "list_tools"
  /\ UNCHANGED <<adapter, tool_result, raised, history_at_input, final_response, turn, session_messages, langchain_tools, messages, idx, selected_tool,
                 response, outcome, released, remote_calls, completions, warnings>>

\* Mutant of Catch: the except clause does not match, the failure leaves run_agent.
CatchNothing(e) ==
  /\ status_text' = status_text
  /\ response' = response
  /\ outcome' = "ESCAPED"
  /\ pc' = "exit_stack"

\* Lines 192-194: an Exception raised inside the try block is shown on the
\* status placeholder and run_agent returns None; the exit stack unwinds next.
Catch(e) ==
  /\ status_text' = Error(e)
  /\ response' = None
  /\ outcome' = "ABORTED"
  /\ pc' = "exit_stack"

\* Mutant of ToolMsg: the message is correlated by the tool's name.
ToolMsgByName(tc, content_text) == ToolMessage(tc.name, content_text, tc.name)

\* Line 127 returns mcp_tools: lines 128-157 build the registry, seed the
\* message list and submit it to the planning completion.
ListTools(mcp_tools) ==
  /\ pc = "list_tools"
  /\ IF Malformed(mcp_tools) = {}
     THEN /\ langchain_tools' = BuildTools(mcp_tools)
          /\ status_text' = Info("Found tools. Thinking...", Len(mcp_tools))
          /\ messages' = << SystemMessage(SYSTEM_PROMPT), HumanMessage(Query) >>
          /\ completions' = Append(completions, messages')
          /\ pc' = "plan"
          /\ UNCHANGED <<response, outcome, raised>>
     ELSE \* line 134 raises: the tools before it are in the registry
          /\ langchain_tools' = BuildTools(SubSeq(mcp_tools, 1, FirstMalformed(mcp_tools) - 1))
          /\ raised' = Failure("create_pydantic_model_from_schema", AdapterError(mcp_tools))
          /\ Catch(AdapterError(mcp_tools))
          /\ UNCHANGED <<messages, completions>>
  /\ UNCHANGED <<adapter, tool_result, history_at_input, final_response, turn, session_messages, stack,
                 idx, selected_tool, acquired, released, remote_calls, warnings>>

\* Mutant of Synthesize: the grounding policy is left out of the submission.
SynthesizeTrimmed(msgs) ==
  /\ status_text' = Info("Generating final itinerary...", 0)
  /\ completions' = Append(completions, SubSeq(msgs, 2, Len(msgs)))
  /\ pc' = "final"

\* Lines 187-188: the message list is submitted to the synthesis completion.
Synthesize(msgs) ==
  /\ status_text' = Info("Generating final itinerary...", 0)
  /\ completions' = Append(completions, msgs)
  /\ pc' = "final"

\* Mutant of PlanReturned: the test of line 160 is left out, the loop is
\* entered whatever the response carries.
PlanReturnedAlwaysLoop(ai_msg) ==
  /\ pc = "plan"
  /\ messages' = Append(messages, ai_msg)
  /\ status_text' = Info("Decided to call tools...", Len(ai_msg.tool_calls))
  /\ idx' = 1
  /\ pc' = "loop"
  /\ UNCHANGED <<adapter, tool_result, completions, raised, history_at_input, final_response, turn,
                 session_messages, stack, langchain_tools, selected_tool, response,
                 outcome, acquired, released, remote_calls, warnings>>

\* Line 157 returns ai_msg: line 158 appends it; with tool calls the loop of
\* line 164 starts, without any the code goes on to line 187.
PlanReturned(ai_msg) ==
  /\ pc = "plan"
  /\ messages' = Append(messages, ai_msg)
  /\ IF ai_msg.tool_calls # <<>>
     THEN /\ status_text' = Info("Decided to call tools...", Len(ai_msg.tool_calls))
          /\ idx' = 1
          /\ pc' = "loop"
          /\ UNCHANGED completions
     ELSE /\ Synthesize(messages')
          /\ UNCHANGED idx
  /\ UNCHANGED <<adapter, tool_result, raised, history_at_input, final_response, turn, session_messages, stack, langchain_tools, selected_tool, response,
                 outcome, acquired, released, remote_calls, warnings>>

\* Mutant of SkipToolCall: a name the registry does not hold is sent to the
\* session as it stands.
SkipToolCallDirect ==
  /\ pc = "loop"
  /\ idx <= Len(ToolCalls)
  /\ SelectedTool(langchain_tools, ToolCalls[idx].name) = 0
  /\ selected_tool' = 0
  /\ remote_calls' =
       Append(remote_calls,
              [id |-> ToolCalls[idx].id, handle |-> 0,
               call |-> [name |-> ToolCalls[idx].name, arguments |-> ToolCalls[idx].args]])
  /\ pc' = "call_tool"
  /\ UNCHANGED <<adapter, tool_result, final_response, raised, history_at_input, turn, session_messages,
                 status_text, stack, langchain_tools, messages, idx, response, outcome,
                 acquired, released, completions, warnings>>

\* Mutant of SkipToolCall: next() without its default raises on an unknown name.
SkipToolCallRaise ==
  /\ pc = "loop"
  /\ idx <= Len(ToolCalls)
  /\ SelectedTool(langchain_tools, ToolCalls[idx].name) = 0
  /\ status_text' = Error("StopIteration")
  /\ response' = None
  /\ outcome' = "ABORTED"
  /\ raised' = Failure("next", "StopIteration")
  /\ pc' = "exit_stack"
  /\ UNCHANGED <<adapter, tool_result, final_response, history_at_input, turn, session_messages, stack,
                 langchain_tools, messages, idx, selected_tool, acquired, released,
                 remote_calls, completions, warnings>>

\* Mutant of SkipToolCall: the loop does not move past a request it cannot resolve.
SkipToolCallStay ==
  /\ pc = "loop"
  /\ idx <= Len(ToolCalls)
  /\ SelectedTool(langchain_tools, ToolCalls[idx].name) = 0
  /\ UNCHANGED vars

\* Lines 164-166, selected_tool is None: the request is passed over.
SkipToolCall ==
  /\ pc = "loop"
  /\ idx <= Len(ToolCalls)
  /\ SelectedTool(langchain_tools, ToolCalls[idx].name) = 0
  /\ selected_tool' = 0
  /\ idx' = idx + 1
  /\ UNCHANGED <<adapter, tool_result, raised, history_at_input, final_response, pc, turn, session_messages, status_text, stack, langchain_tools, messages,
                 response, outcome, acquired, released, remote_calls, completions,
                 warnings>>

\* Mutant of IssueToolCall: the call is started and not awaited, the loop goes on.
IssueToolCallNoAwait ==
  /\ pc = "loop"
  /\ idx <= Len(ToolCalls)
  /\ SelectedTool(langchain_tools, ToolCalls[idx].name) # 0
  /\ selected_tool' = SelectedTool(langchain_tools, ToolCalls[idx].name)
  /\ remote_calls' =
       Append(remote_calls, RemoteCall(ToolCalls[idx], selected_tool', langchain_tools))
  /\ idx' = idx + 1
  /\ UNCHANGED <<adapter, tool_result, final_response, raised, history_at_input, pc, turn, session_messages,
                 status_text, stack, langchain_tools, messages, response, outcome,
                 acquired, released, completions, warnings>>

\* Lines 164-172, selected_tool found: its coroutine is called with the
\* request's arguments, which sends session.call_tool, and awaited.
IssueToolCall ==
  /\ pc = "loop"
  /\ idx <= Len(ToolCalls)
  /\ SelectedTool(langchain_tools, ToolCalls[idx].name) # 0
  /\ selected_tool' = SelectedTool(langchain_tools, ToolCalls[idx].name)
  /\ remote_calls' =
       Append(remote_calls, RemoteCall(ToolCalls[idx], selected_tool', langchain_tools))
  /\ pc' = "call_tool"
  /\ UNCHANGED <<adapter, tool_result, raised, history_at_input, final_response, turn, session_messages, status_text, stack, langchain_tools, messages,
                 idx, response, outcome, acquired, released, completions, warnings>>

\* The for loop of line 164 is exhausted: lines 187-188.
EndToolLoop ==
  /\ pc = "loop"
  /\ idx > Len(ToolCalls)
  /\ Synthesize(messages)
  /\ UNCHANGED <<adapter, tool_result, raised, history_at_input, final_response, turn, session_messages, stack, langchain_tools, messages, idx,
                 selected_tool, response, outcome, acquired, released, remote_calls,
                 warnings>>

\* The tool_msg lines 179-183 build for request tc and payload text.
ToolMsg(tc, content_text) == ToolMessage(tc.id, content_text, tc.name)

\* Mutant of NextIdx: the loop passes over the request after the one it ran.
NextIdxSkip(i) == i + 2
\* The loop variable after the body of one iteration has run.
NextIdx(i) == i + 1

\* Mutant of ToolReturned: an empty list of segments is read as an empty text.
ToolReturnedLenient(content) ==
  /\ pc = "call_tool"
  /\ tool_result' = Returned(content)
  /\ warnings' = IF content # <<>> /\ IsEmptyOrError(content[1])
                  THEN Append(warnings, ToolCalls[idx].name)
                  ELSE warnings
  /\ messages' = Append(messages, ToolMsg(ToolCalls[idx], IF content = <<>> THEN "" ELSE content[1]))
  /\ idx' = NextIdx(idx)
  /\ pc' = "loop"
  /\ UNCHANGED <<status_text, response, outcome, raised>>
  /\ UNCHANGED <<adapter, history_at_input, final_response, turn, session_messages, stack, langchain_tools, selected_tool, acquired,
                 released, remote_calls, completions>>

\* Line 172 returns tool_result: line 173 takes the first segment's text
\* (IndexError on an empty list), lines 176-177 flag it, lines 179-184
\* append the tool-result message; the loop goes on.
ToolReturned(content) ==
  /\ pc = "call_tool"
  /\ tool_result' = Returned(content)
  /\ IF content = <<>>
     THEN /\ Catch(IndexErrorText)
          /\ raised' = Failure("content[0]", IndexErrorText)
          /\ UNCHANGED <<messages, idx, warnings>>
     ELSE /\ warnings' = IF IsEmptyOrError(content[1])
                         THEN Append(warnings, ToolCalls[idx].name)
                         ELSE warnings
          /\ messages' = Append(messages, ToolMsg(ToolCalls[idx], content[1]))
          /\ idx' = NextIdx(idx)
          /\ pc' = "loop"
          /\ UNCHANGED <<status_text, response, outcome, raised>>
  /\ UNCHANGED <<adapter, history_at_input, final_response, turn, session_messages, stack, langchain_tools, selected_tool, acquired,
                 released, remote_calls, completions>>

\* An awaited call raises an Exception: lines 192-194.
Raise(e) ==
  /\ pc \in AwaitPoints
  /\ raised' = Failure(pc, e)
  /\ Catch(e)
  /\ UNCHANGED <<adapter, tool_result, history_at_input, final_response, turn, session_messages, stack, langchain_tools, messages, idx,
                 selected_tool, acquired, released, remote_calls, completions, warnings>>

\* The task is cancelled at an await: CancelledError is no Exception, line
\* 192 does not catch it, and it leaves run_agent through the exit stack.
Cancel ==
  /\ pc \in AwaitPoints
  /\ outcome' = "CANCELLED"
  /\ pc' = "exit_stack"
  /\ UNCHANGED <<adapter, tool_result, raised, history_at_input, final_response, turn, session_messages, status_text, stack, langchain_tools, messages,
                 idx, selected_tool, response, acquired, released, remote_calls,
                 completions, warnings>>

\* Mutant of FinalReturned: a response that carries tool calls is answered by
\* another completion request.
FinalReturnedAgain(resp) ==
  /\ pc = "final"
  /\ final_response' = resp
  /\ IF resp.tool_calls # <<>>
     THEN /\ completions' = Append(completions, messages)
          /\ UNCHANGED <<status_text, response, outcome, pc>>
     ELSE /\ status_text' = Cleared
          /\ response' = resp.content
          /\ outcome' = "DONE"
          /\ pc' = "exit_stack"
          /\ UNCHANGED completions
  /\ UNCHANGED <<adapter, tool_result, raised, history_at_input, turn, session_messages, stack, langchain_tools,
                 messages, idx, selected_tool, acquired, released, remote_calls, warnings>>

\* Line 188 returns final_response: lines 189-190 clear the status and
\* return its content.  Its tool_calls are not read.
FinalReturned(resp) ==
  /\ pc = "final"
  /\ final_response' = resp
  /\ status_text' = Cleared
  /\ response' = resp.content
  /\ outcome' = "DONE"
  /\ pc' = "exit_stack"
  /\ UNCHANGED <<adapter, tool_result, raised, history_at_input, turn, session_messages, stack, langchain_tools, messages, idx,
                 selected_tool, acquired, released, remote_calls, completions, warnings>>

\* Line 116, leaving the async with: the exit stack exits one context.
ExitContext ==
  /\ pc = "exit_stack"
  /\ stack # <<>>
  /\ released' = Append(released, Top(stack))
  /\ stack' = Pop(stack)
  /\ UNCHANGED <<adapter, tool_result, raised, history_at_input, final_response, pc, turn, session_messages, status_text, langchain_tools, messages, idx,
                 selected_tool, response, outcome, acquired, remote_calls, completions,
                 warnings>>

\* Mutant of AfterTurn: the result is appended without the test of line 213.
AfterTurnAlways(hist, r, how) ==
  IF how # "CANCELLED" THEN Append(hist, Entry("assistant", r)) ELSE hist

\* The history after lines 213-215 for run_agent's result r; a cancelled
\* run_agent raises out of line 211 and the lines are not run.
AfterTurn(hist, r, how) ==
  IF how # "CANCELLED" /\ Truthy(r)
  THEN Append(hist, Entry("assistant", r))
  ELSE hist

\* The exit stack is empty: run_agent is left, lines 211-215 finish the turn.
Return ==
  /\ pc = "exit_stack"
  /\ stack = <<>>
  /\ session_messages' = AfterTurn(session_messages, response, outcome)
  /\ pc' = "idle"
  /\ UNCHANGED <<adapter, tool_result, raised, history_at_input, final_response, turn, status_text, stack, langchain_tools, messages, idx, selected_tool,
                 response, outcome, acquired, released, remote_calls, completions,
                 warnings>>

Next ==
  \/ \E prompt \in Prompts : ChatInput(prompt)
  \/ EnterTransport
  \/ EnterSession
  \/ \E mcp_tools \in ToolLists : ListTools(mcp_tools)
  \/ \E ai_msg \in PlanResponses : PlanReturned(ai_msg)
  \/ SkipToolCall
  \/ IssueToolCall
  \/ EndToolLoop
  \/ \E content \in ToolResults : ToolReturned(content)
  \/ \E e \in Failures : Raise(e)
  \/ Cancel
  \/ \E resp \in FinalResponses : FinalReturned(resp)
  \/ ExitContext
  \/ Return

Spec == Init /\ [][Next]_vars

\* Line 211: asyncio.run drives run_agent until it is left, and the handler
\* then finishes; every await returns or raises. The steps that takes, which
\* are all steps but the arrival of an input and a cancellation.
TurnStep ==
  \/ EnterTransport
  \/ EnterSession
  \/ \E mcp_tools \in ToolLists : ListTools(mcp_tools)
  \/ \E ai_msg \in PlanResponses : PlanReturned(ai_msg)
  \/ SkipToolCall
  \/ IssueToolCall
  \/ EndToolLoop
  \/ \E content \in ToolResults : ToolReturned(content)
  \/ \E e \in Failures : Raise(e)
  \/ \E resp \in FinalResponses : FinalReturned(resp)
  \/ ExitContext
  \/ Return
SpecLive == Spec /\ WF_vars(TurnStep)

\* The adapter on its own: it is called once on any schema.
turn_vars == <<pc, turn, session_messages, status_text, stack, langchain_tools, messages,
               idx, selected_tool, final_response, response, outcome, acquired, released,
               remote_calls, completions, warnings, raised, history_at_input, tool_result>>
AdapterInit ==
  /\ InitTurn
  /\ adapter \in { [schema |-> schema, model |-> NotCalled] : schema \in Schemas }
CallAdapter ==
  /\ ~adapter.model.called
  /\ adapter' = [adapter EXCEPT
                   !.model = create_pydantic_model_from_schema("search_places", adapter.schema)]
  /\ UNCHANGED turn_vars
AdapterNext == CallAdapter
SpecAdapter == AdapterInit /\ [][AdapterNext]_vars

\* Type and shape of the state.
TypeOK ==
  /\ pc \in {"idle", "loop", "exit_stack"} \cup AwaitPoints
  /\ turn \in 0..MaxTurns
  /\ outcome \in {"RUNNING", "DONE", "ABORTED", "CANCELLED"}
  /\ response \in {None} \cup Contents
  /\ final_response \in {NoResponse} \cup FinalResponses
  /\ raised.at \in {"none", "content[0]", "create_pydantic_model_from_schema"} \cup AwaitPoints
  /\ tool_result \in {NotReturned} \cup { Returned(content) : content \in ToolResults }
  /\ idx \in 0..(MaxCalls + 1)
  /\ selected_tool \in 0..Len(langchain_tools)

\* ------------------------------------------------------------------ claims
Resources == {"transport", "session"}
Count(seq, x) == Cardinality({ k \in 1..Len(seq) : seq[k] = x })
Reverse(seq) == [k \in 1..Len(seq) |-> seq[Len(seq) + 1 - k]]
IsPrefix(a, b) == Len(a) <= Len(b) /\ SubSeq(b, 1, Len(a)) = a

\* The handler has finished a turn and waits for the next input.
TurnEnded == pc = "idle" /\ turn > 0

\* The requests of the planning response, read from the message list.
PlanCalls == IF Len(messages) >= 3 THEN messages[3].tool_calls ELSE <<>>
Registered(name) == \E k \in 1..Len(langchain_tools) : langchain_tools[k].name = name
\* Positions of the planning response's requests that name a registered tool.
Resolved == { k \in 1..Len(PlanCalls) : Registered(PlanCalls[k].name) }
\* The tool-result messages of the turn, in list order.
ToolResultMsgs == SelectSeq(messages, LAMBDA m : m.role = "tool")

\* C1: in every turn each acquired resource (transport, session) is released
\* exactly once by the time the turn ends, however it ends: no resource is
\* released more often than it was acquired at any moment, and when the turn
\* has ended every acquired resource has been released and none is still held.
C1_ReleasedExactlyOnce ==
  /\ \A r \in Resources : Count(acquired, r) <= 1 /\ Count(released, r) <= Count(acquired, r)
  /\ TurnEnded =>
       /\ stack = <<>>
       /\ \A r \in Resources : Count(released, r) = Count(acquired, r)

\* A turn cancelled during a tool invocation has ended, both resources acquired.
C1_Witness ==
  /\ TurnEnded
  /\ outcome = "CANCELLED"
  /\ remote_calls # <<>>
  /\ acquired = <<"transport", "session">>

\* C2: the transport is opened before the session, and releases happen in the
\* reverse order of the acquisitions; a turn whose session never opened
\* releases the transport alone.
C2_ReverseOrderRelease ==
  /\ IsPrefix(acquired, <<"transport", "session">>)
  /\ IsPrefix(released, Reverse(acquired))
  /\ stack \o Reverse(released) = acquired
  /\ TurnEnded => released = Reverse(acquired)

\* Opening the session failed: only the transport was acquired and released.
C2_Witness ==
  /\ TurnEnded
  /\ raised.at = "ClientSession"
  /\ acquired = <<"transport">>
  /\ released = <<"transport">>

\* C3 as stated: a turn that reaches DONE has a message list of length
\* 1 + 1 + 1 + (resolved tool calls) + 1, the last entry the assistant-final.
C3_Original ==
  outcome = "DONE" => Len(messages) = 4 + Cardinality(Resolved)

\* C3 amended: a turn that reaches DONE has a message list of length
\* 1 (grounding policy) + 1 (user) + 1 (assistant-plan) + (resolved tool
\* calls); the assistant-final message is returned and never appended, so the
\* list holds one assistant entry, the plan.
C3_LengthWithoutFinal ==
  outcome = "DONE" =>
    /\ Len(messages) = 3 + Cardinality(Resolved)
    /\ messages[1].role = "system" /\ messages[2].role = "user"
    /\ messages[3].role = "assistant"
    /\ Len(ToolResultMsgs) = Cardinality(Resolved)
    /\ \A k \in 4..Len(messages) : messages[k].role = "tool"

\* A DONE turn whose plan had a resolved and an unresolved request.
C3_Witness ==
  /\ outcome = "DONE"
  /\ Cardinality(Resolved) >= 1
  /\ Len(PlanCalls) > Cardinality(Resolved)

\* The entries the chat history gained since this turn's input arrived.
Gained == SubSeq(session_messages, Len(history_at_input) + 1, Len(session_messages))

\* C4 as stated: after a tool invocation raised, the turn is ABORTED, the
\* status shows the failure text and the chat history has gained no message
\* in the turn.
C4_Original ==
  raised.at = "call_tool" =>
    /\ outcome = "ABORTED"
    /\ status_text = Error(raised.text)
    /\ session_messages = history_at_input

\* C4 amended: after a tool invocation raised, the turn is ABORTED, the status
\* shows the failure text, and the only message the chat history has gained in
\* the turn is the user's prompt, appended before run_agent started; no
\* assistant message is appended.
C4_ToolFailureAborts ==
  raised.at = "call_tool" =>
    /\ outcome = "ABORTED"
    /\ status_text = Error(raised.text)
    /\ \E prompt \in Prompts : Gained = << Entry("user", prompt) >>
    /\ IsPrefix(history_at_input, session_messages)

\* The second tool invocation of a turn raised and the turn has ended.
C4_Witness ==
  /\ TurnEnded
  /\ raised.at = "call_tool"
  /\ raised.text \in Failures
  /\ Len(remote_calls) = 2

\* Once a failure was raised: the turn is ABORTED with None returned, the
\* status shows the failure text, and the history has gained no assistant entry.
C5_State ==
  raised # NoFailure =>
    /\ outcome = "ABORTED"
    /\ response = None
    /\ status_text = Error(raised.text)
    /\ pc \in {"exit_stack", "idle"}
    /\ \A k \in 1..Len(Gained) : Gained[k].role # "assistant"
\* While that failure stands, no step issues a remote call or a completion.
C5_Step ==
  (raised # NoFailure /\ raised' = raised) =>
    (remote_calls' = remote_calls /\ completions' = completions)
\* C5: a failure raised at any await of the turn does not leave run_agent:
\* the turn is ABORTED and returns None, the status shows the failure text,
\* the chat history gains no assistant entry, and from then on no remote tool
\* call and no completion is issued.
C5_FailuresCaught == []C5_State /\ [][C5_Step]_vars

\* The synthesis completion raised after a tool call had been answered.
C5_Witness ==
  /\ TurnEnded
  /\ raised.at = "final"
  /\ Len(ToolResultMsgs) >= 1

\* C6: a turn requests at most two completions and issues remote calls only
\* for requests of the planning response; once the synthesis response is in,
\* two completions have been requested, the turn is leaving, and the remote
\* calls are those of the plan's resolved requests, whatever tool calls the
\* synthesis response carries.
C6_OneShot ==
  /\ Len(completions) <= 2
  /\ \A k \in 1..Len(remote_calls) :
       \E j \in 1..Len(PlanCalls) : PlanCalls[j].id = remote_calls[k].id
  /\ final_response # NoResponse =>
       /\ Len(completions) = 2
       /\ pc \in {"exit_stack", "idle"}
       /\ outcome = "DONE"
       /\ Len(remote_calls) = Cardinality(Resolved)
       /\ \A k \in 1..Len(remote_calls) :
            \A j \in 1..Len(final_response.tool_calls) :
              remote_calls[k].id # final_response.tool_calls[j].id

\* A DONE turn whose synthesis response asked for a registered tool.
C6_Witness ==
  /\ TurnEnded
  /\ outcome = "DONE"
  /\ final_response.tool_calls # <<>>
  /\ Registered(final_response.tool_calls[1].name)
  /\ remote_calls # <<>>

\* Position in the planning response of the request with this id.
PosOf(id) == CHOOSE p \in 1..Len(PlanCalls) : PlanCalls[p].id = id

\* C7: the resolved requests are invoked one after the other in the order of
\* the planning response: at most one remote call is unanswered, it is the
\* last one issued, every earlier call's tool-result message is already in the
\* list, and the tool-result messages stand in issue order.
C7_SequentialInOrder ==
  /\ Len(remote_calls) - Len(ToolResultMsgs) \in {0, 1}
  /\ pc = "call_tool" => Len(remote_calls) = Len(ToolResultMsgs) + 1
  /\ \A k \in 1..Len(ToolResultMsgs) : ToolResultMsgs[k].tool_call_id = remote_calls[k].id
  /\ \A j, k \in 1..Len(remote_calls) :
       j < k => PosOf(remote_calls[j].id) < PosOf(remote_calls[k].id)

\* The second remote call is in flight and the first one's result is appended.
C7_Witness ==
  /\ pc = "call_tool"
  /\ Len(remote_calls) = 2
  /\ Len(ToolResultMsgs) = 1

\* The ways a turn aborts: an await raised, content[0] on an empty list, or
\* the schema adapter on a schema it cannot read.
FailureSites == AwaitPoints \cup {"content[0]", "create_pydantic_model_from_schema"}

\* C8: a request of the planning response that names no registered tool gets
\* no remote call and no tool-result message, and the turn does not abort
\* over it: a turn aborts only on a raised failure, and when synthesis is
\* reached every resolved request of the response, also one after an
\* unresolved request, has had its remote call.
C8_UnknownToolSkipped ==
  /\ \A k \in 1..Len(PlanCalls) :
       ~Registered(PlanCalls[k].name) =>
         /\ \A c \in 1..Len(remote_calls) : remote_calls[c].id # PlanCalls[k].id
         /\ \A m \in 1..Len(messages) :
              messages[m].role = "tool" => messages[m].tool_call_id # PlanCalls[k].id
  /\ outcome = "ABORTED" => raised.at \in FailureSites
  /\ (pc = "final" \/ outcome = "DONE") =>
       \A k \in Resolved : \E c \in 1..Len(remote_calls) : remote_calls[c].id = PlanCalls[k].id

\* A DONE turn whose first request was unresolved and whose second was run.
C8_Witness ==
  /\ outcome = "DONE"
  /\ Len(PlanCalls) = 2
  /\ ~Registered(PlanCalls[1].name)
  /\ Registered(PlanCalls[2].name)
  /\ Len(remote_calls) = 1
  /\ Len(ToolResultMsgs) = 1

\* C9: every tool-result message carries the id of a request of an assistant
\* message that stands earlier in the list, and no two tool-result messages
\* carry the same id.
C9_CorrelationIds ==
  /\ \A k \in 1..Len(messages) :
       messages[k].role = "tool" =>
         \E j \in 1..(k - 1) :
           /\ messages[j].role = "assistant"
           /\ \E c \in 1..Len(messages[j].tool_calls) :
                messages[j].tool_calls[c].id = messages[k].tool_call_id
  /\ \A j, k \in 1..Len(ToolResultMsgs) :
       ToolResultMsgs[j].tool_call_id = ToolResultMsgs[k].tool_call_id => j = k

\* Two tool-result messages stand in the list.
C9_Witness == Len(ToolResultMsgs) = 2

\* Registry positions whose entry has this name.
Entries(name) == { k \in 1..Len(langchain_tools) : langchain_tools[k].name = name }
Maximum(S) == CHOOSE x \in S : \A y \in S : y <= x
Minimum(S) == CHOOSE x \in S : \A y \in S : x <= y
\* The request whose remote call is in flight names a tool registered twice.
DuplicateInFlight == pc = "call_tool" /\ Cardinality(Entries(PlanCalls[idx].name)) >= 2

\* C10 as stated: a request for a name registered more than once runs through
\* the last-registered handle.
C10_Original ==
  DuplicateInFlight =>
    remote_calls[Len(remote_calls)].handle = Maximum(Entries(PlanCalls[idx].name))

\* C10 amended: a request for a name registered more than once resolves to
\* the first-registered handle (first-registered wins).
C10_FirstRegisteredWins ==
  DuplicateInFlight =>
    /\ selected_tool = Minimum(Entries(PlanCalls[idx].name))
    /\ remote_calls[Len(remote_calls)].handle = selected_tool
    /\ langchain_tools[selected_tool].name = PlanCalls[idx].name

\* A call in flight for a name registered at positions 2 and 3.
C10_Witness ==
  /\ DuplicateInFlight
  /\ Entries(PlanCalls[idx].name) = {2, 3}
  /\ selected_tool = 2

\* C11: a turn that reached DONE has returned the synthesis response's
\* content, and when it has ended the chat history has gained, after the
\* user's prompt, exactly one assistant entry holding that content, whatever
\* the content is (the empty string too).
C11_FinalAnswerAppended ==
  (TurnEnded /\ outcome = "DONE") =>
    /\ response = final_response.content
    /\ \E prompt \in Prompts :
         Gained = << Entry("user", prompt), Entry("assistant", final_response.content) >>

\* C12: a turn whose planning response carries no request issues no remote
\* call: the planning completion is followed at once by the synthesis
\* completion, submitted with the list as the plan left it; and a remote call
\* is issued only in a turn whose planning response carries a request.
C12_NoRequestsNoTools ==
  /\ (Len(messages) >= 3 /\ PlanCalls = <<>>) =>
       /\ remote_calls = <<>>
       /\ idx = 0
       /\ pc \in {"final", "exit_stack", "idle"}
       /\ Len(completions) = 2
       /\ completions[2] = messages
       /\ Len(messages) = 3
  /\ remote_calls # <<>> => Len(PlanCalls) >= 1
  /\ pc \in {"loop", "call_tool"} => Len(PlanCalls) >= 1

\* A DONE turn over a non-empty registry whose plan carried no request.
C12_Witness ==
  /\ TurnEnded
  /\ outcome = "DONE"
  /\ Len(langchain_tools) >= 1
  /\ PlanCalls = <<>>
  /\ Len(completions) = 2

\* Discovery returned no tool: the registry is empty and the list is seeded.
ZeroTools == Len(messages) >= 2 /\ langchain_tools = <<>>

\* C13 as stated: with zero tools discovered the turn never is in
\* EXECUTING_TOOLS and issues no remote call, whatever the plan carries.
C13_Original ==
  ZeroTools => (State # "EXECUTING_TOOLS" /\ remote_calls = <<>>)

\* C13 amended: with zero tools discovered the turn still submits the seeded
\* list to the planning completion and issues no remote call and appends no
\* tool-result message, whatever the planning response carries; it is in
\* EXECUTING_TOOLS only when that response carries requests, every one of
\* which is passed over; it aborts only if a completion fails, and otherwise
\* requests the synthesis completion and returns that response's content.
C13_ZeroToolsNoCalls ==
  ZeroTools =>
    /\ Len(completions) >= 1 /\ completions[1] = SubSeq(messages, 1, 2)
    /\ remote_calls = <<>> /\ ToolResultMsgs = <<>> /\ selected_tool = 0
    /\ State = "EXECUTING_TOOLS" => (pc = "loop" /\ Len(PlanCalls) >= 1)
    /\ outcome = "ABORTED" => raised.at \in {"plan", "final"}
    /\ outcome = "DONE" =>
         /\ Len(completions) = 2 /\ Len(messages) = 3
         /\ response = final_response.content

\* A DONE turn over an empty registry whose plan carried two requests.
C13_Witness ==
  /\ ZeroTools
  /\ outcome = "DONE"
  /\ Len(PlanCalls) = 2
  /\ idx = 3

\* The payload texts that are an empty collection or name an error.
EmptyOrErrorTexts == {"[]", "{}", "API Error"}
\* The tool-result messages whose content is such a text.
FlaggedMsgs == SelectSeq(ToolResultMsgs, LAMBDA m : m.content \in EmptyOrErrorTexts)

\* C14: an empty or error-shaped payload is data: the warning is raised for
\* exactly the tool-result messages whose text is "[]", is "{}" or contains
\* "error" in any case, every answered call has its tool-result message with
\* the text as received, the turn aborts only on a raised failure, and a DONE
\* turn has run every resolved request.
C14_EmptyResultIsData ==
  /\ Len(warnings) = Len(FlaggedMsgs)
  /\ \A k \in 1..Len(warnings) : warnings[k] = FlaggedMsgs[k].name
  /\ \A k \in 1..Len(ToolResultMsgs) : ToolResultMsgs[k].content \in ToolTexts
  /\ (pc = "loop" \/ State = "SYNTHESIZING" \/ outcome = "DONE") =>
       Len(ToolResultMsgs) = Len(remote_calls)
  /\ outcome = "ABORTED" => raised # NoFailure
  /\ outcome = "DONE" => Len(ToolResultMsgs) = Cardinality(Resolved)

\* A DONE turn whose first call returned "[]" and whose second, run after
\* it, returned a text naming an error in capitals.
C14_Witness ==
  /\ outcome = "DONE"
  /\ Len(ToolResultMsgs) = 2
  /\ ToolResultMsgs[1].content = "[]"
  /\ ToolResultMsgs[2].content = "API Error"
  /\ Len(warnings) = 2

\* A schema that is a dict whose properties, if any, are all dicts.
WellFormed(schema) ==
  /\ schema.kind = "dict"
  /\ \A f \in DOMAIN schema.properties : schema.properties[f].kind = "dict"
\* The field type the data model gives for a declared type.
ShapeType(declared) ==
  CASE declared = "number" -> "float"
    [] declared = "integer" -> "int"
    [] declared = "boolean" -> "bool"
    [] declared = "string" -> "str"
    [] OTHER -> "str"

\* C15: for every schema that is a map whose property descriptions are maps,
\* the adapter's shape has exactly the keys of the "properties" map as its
\* fields (none when the map is empty or missing), each of type float for
\* "number", int for "integer", bool for "boolean" and str for "string", for
\* an unrecognized type and for a missing type.
C15_ShapeFollowsSchema ==
  (adapter.model.called /\ WellFormed(adapter.schema)) =>
    /\ adapter.model.raises = ""
    /\ DOMAIN adapter.model.fields =
         (IF adapter.schema.has_properties THEN DOMAIN adapter.schema.properties ELSE {})
    /\ \A f \in DOMAIN adapter.model.fields :
         adapter.model.fields[f] = ShapeType(adapter.schema.properties[f].type)

\* The adapter was called on a schema with an integer field and a field
\* without a type.
C15_Witness ==
  /\ adapter.model.called
  /\ adapter.schema.has_properties
  /\ DOMAIN adapter.schema.properties = {"city", "radius"}
  /\ adapter.schema.properties["radius"].type = "integer"
  /\ adapter.schema.properties["city"] = FieldInfo("dict", Missing)
  /\ adapter.model.fields = [city |-> "str", radius |-> "int"]

\* C16: the adapter never fails, so no turn is aborted by the schema of a
\* discovered tool: no failure of a turn comes from the adapter.
C16_AdapterNeverAborts ==
  raised.at # "create_pydantic_model_from_schema"

\* C17: every remote call is issued with the name of the tool its request
\* named and with the arguments the request carried, whatever the argument
\* map, and no request is run more than once.
C17_CallAsRequested ==
  /\ \A j, k \in 1..Len(remote_calls) : remote_calls[j].id = remote_calls[k].id => j = k
  /\ \A k \in 1..Len(remote_calls) :
       /\ remote_calls[k].call.name = PlanCalls[PosOf(remote_calls[k].id)].name
       /\ remote_calls[k].call.arguments = PlanCalls[PosOf(remote_calls[k].id)].args

\* The request of the turn under way, as the handler stored it at line 206.
TurnPrompt == session_messages[Len(history_at_input) + 1].content
\* The conversation is seeded with the grounding policy and the request; the
\* planning completion gets the seed, the synthesis completion gets the seed
\* followed by the assistant plan and then tool results only.
C18_State ==
  /\ messages # <<>> =>
       /\ Len(messages) >= 2
       /\ messages[1] = SystemMessage(SYSTEM_PROMPT)
       /\ messages[2] = HumanMessage(TurnPrompt)
  /\ Len(completions) >= 1 =>
       completions[1] = << SystemMessage(SYSTEM_PROMPT), HumanMessage(TurnPrompt) >>
  /\ Len(completions) >= 2 =>
       /\ IsPrefix(completions[1], completions[2])
       /\ Len(completions[2]) >= 3
       /\ completions[2][3].role = "assistant"
       /\ \A k \in 4..Len(completions[2]) : completions[2][k].role = "tool"
       /\ completions[2] = messages
\* Within a turn a step leaves the message list alone or extends it.
C18_Step == turn' = turn => IsPrefix(messages, messages')
\* C18: the conversation of a turn is only ever appended to; its first message
\* is the grounding policy and its second the user's request; the sequence
\* submitted to the synthesis completion is the one submitted to the planning
\* completion followed by the assistant plan and then the tool-result messages.
C18_AppendOnly == []C18_State /\ [][C18_Step]_vars

\* The synthesis completion was requested after two tool results.
C18_Witness ==
  /\ Len(completions) = 2
  /\ Len(completions[2]) = 5
  /\ completions[2][5].role = "tool"

\* The last tool invocation returned an empty list of segments.
EmptyAnswered == tool_result.returned /\ tool_result.content = <<>>

\* C19: a tool invocation answered with an empty list of content segments
\* aborts the turn: no tool-result message is appended for that call, it is
\* the last remote call of the turn, only the planning completion was
\* requested, and the turn is ABORTED with the text of the IndexError on the
\* status.
C19_EmptyContentAborts ==
  /\ raised.at = "content[0]" <=> EmptyAnswered
  /\ EmptyAnswered =>
       /\ Len(ToolResultMsgs) = Len(remote_calls) - 1
       /\ \A k \in 1..Len(ToolResultMsgs) :
            ToolResultMsgs[k].tool_call_id # remote_calls[Len(remote_calls)].id
       /\ Len(completions) = 1
       /\ final_response = NoResponse
       /\ outcome = "ABORTED"
       /\ response = None
       /\ status_text = Error(IndexErrorText)
       /\ pc \in {"exit_stack", "idle"}

\* The first of two requested tools was answered with an empty list and the
\* turn has ended.
C19_Witness ==
  /\ TurnEnded
  /\ raised.at = "content[0]"
  /\ Len(PlanCalls) = 2
  /\ Len(remote_calls) = 1

\* The place of a state in the order of the turn's state machine.
StateRank ==
  CASE State = "IDLE" -> 0
    [] State = "CONNECTING" -> 1
    [] State = "DISCOVERING" -> 2
    [] State = "PLANNING" -> 3
    [] State = "EXECUTING_TOOLS" -> 4
    [] State = "SYNTHESIZING" -> 5
    [] OTHER -> 6
\* Within a turn no step goes back to an earlier state, DISCOVERING is entered
\* from CONNECTING only, PLANNING from DISCOVERING only, EXECUTING_TOOLS from
\* PLANNING only, SYNTHESIZING from PLANNING or EXECUTING_TOOLS only, and a
\* terminal state is not left.
C20_Step ==
  turn' = turn =>
    /\ StateRank' >= StateRank
    /\ (StateRank' \in 2..4 /\ StateRank' # StateRank) => StateRank = StateRank' - 1
    /\ (StateRank' = 5 /\ StateRank' # StateRank) => StateRank \in {3, 4}
    /\ StateRank = 6 => outcome' = outcome
\* The turn has ended in DONE or ABORTED with every acquired resource released.
C20_Ended ==
  /\ TurnEnded
  /\ outcome \in {"DONE", "ABORTED"}
  /\ stack = <<>>
  /\ released = Reverse(acquired)
\* C20: every await returning or raising, a turn passes through CONNECTING,
\* DISCOVERING, PLANNING, optionally EXECUTING_TOOLS, SYNTHESIZING in that
\* order and never goes back, and a turn under way eventually ends in DONE or
\* in ABORTED with all acquired resources released; a turn cancelled at an
\* await, which neither returns nor raises, is the one the assumption excludes.
C20_OrderedAndTerminates ==
  /\ [][C20_Step]_vars
  /\ (pc # "idle") ~> (C20_Ended \/ outcome = "CANCELLED")

\* A turn that ran a tool has ended in DONE with both resources released.
C20_Witness ==
  /\ C20_Ended
  /\ outcome = "DONE"
  /\ Len(remote_calls) >= 1
  /\ released = <<"session", "transport">>

====
